---- MODULE Spec2Model ----
(***************************************************************************)
(* Model of samcli/lib/translate/sam_template_validator.py:                *)
(* SamTemplateValidator, its two template rewrite passes                   *)
(* (_replace_local_codeuri, _replace_local_image), the static helpers      *)
(* is_s3_uri / _update_to_s3_uri, the lru_cache'd _get_managed_policy_map  *)
(* and get_translated_template_if_valid.                                   *)
(*                                                                         *)
(* Python values are records [kind, s]: kind "absent" is a missing key     *)
(* (what dict.get falls back from), "none" is None, "str" a string whose   *)
(* characters are the sequence s, "dict" a nested mapping (a reference     *)
(* expression such as {"Ref": "X"}).  The mappings the code walks          *)
(* (Resources, Globals, a resource, Properties, Metadata) are              *)
(* records with a kind of their own, so that a section of the wrong type   *)
(* is a value the model can hold.  Python dicts iterate in insertion       *)
(* order: the items of Resources and Globals are sequences.                *)
(***************************************************************************)
EXTENDS Integers, Sequences, FiniteSets, TLC

\* One SamTemplateValidator instance (functools.lru_cache keys the cached
\* method on self, so each instance has a cache slot of its own).
\*   sam_template    self.sam_template, mutated in place by the passes
\*   cache           the lru_cache slot of _get_managed_policy_map for self
\*   loads           how often managed_policy_loader.load() has been invoked
\*   okCalls, failCalls, returned
\*                   the calls of _get_managed_policy_map that returned, that
\*                   raised, and the set of values they returned
\*   lastOp, pre, preLoads
\*                   the last operation, and sam_template / loads before it
\*   exc, reached    what the last rewrite pass raised, and how many resources
\*                   its loop over Resources completed
\*   result          what the last call handed to its caller
\*   engineSaw       what Translator.translate did in the last validation
\*   translateCalls  how often the last validation invoked translate
VARIABLES sam_template, pre, lastOp, exc, reached,
          cache, loads, preLoads, okCalls, failCalls, returned,
          result, engineSaw, translateCalls

vars == <<sam_template, pre, lastOp, exc, reached,
          cache, loads, preLoads, okCalls, failCalls, returned,
          result, engineSaw, translateCalls>>

validatorVars == <<cache, loads, preLoads, okCalls, failCalls, returned,
                   result, engineSaw, translateCalls>>

\* ------------------------------------------------------------------ bounds
MaxResources == 2
MaxCalls == 3
MaxCallbacks == 1
MaxCauses == 2

\* ------------------------------------------------------- Python leaf values
Abs == [kind |-> "absent", s |-> <<>>]
PyNone == [kind |-> "none", s |-> <<>>]
PyDict == [kind |-> "dict", s |-> <<>>]
Str(chars) == [kind |-> "str", s |-> chars]

ZIP == Str(<<"Z", "i", "p">>)
IMAGE == Str(<<"I", "m", "a", "g", "e">>)
AWS_SERVERLESS_FUNCTION == "AWS::Serverless::Function"
AWS_SERVERLESS_LAYERVERSION == "AWS::Serverless::LayerVersion"
AWS_SERVERLESS_API == "AWS::Serverless::Api"
AWS_SERVERLESS_HTTPAPI == "AWS::Serverless::HttpApi"
AWS_SERVERLESS_STATEMACHINE == "AWS::Serverless::StateMachine"
OtherType == "AWS::Lambda::Function"
NoType == "(no Type key)"

S3Scheme == <<"s", "3", ":", "/", "/">>
S3UriValue == Str(S3Scheme \o <<"b", "u", "c", "k", "e", "t", "/", "v", "a", "l", "u", "e">>)
FakeImageUri == Str(<<"1", "1", "1", "1", "1", "1", "1", "1", "1", "1", "1", "1",
                     ".", "d", "k", "r", ".", "e", "c", "r", ".", "r", "e", "g", "i", "o", "n",
                     ".", "a", "m", "a", "z", "o", "n", "a", "w", "s", ".", "c", "o", "m",
                     "/", "r", "e", "p", "o", "s", "i", "t", "o", "r", "y">>)

\* str.startswith(prefix)
StartsWith(chars, prefix) ==
    /\ Len(chars) >= Len(prefix)
    /\ SubSeq(chars, 1, Len(prefix)) = prefix

\* Variant: the scheme is matched without regard to case.
LowerChar(c) == IF c = "S" THEN "s" ELSE c
is_s3_uri_anycase(uri) ==
    /\ uri.kind = "str"
    /\ StartsWith([k \in 1..Len(uri.s) |-> LowerChar(uri.s[k])], S3Scheme)

\* is_s3_uri: isinstance(uri, str) and uri.startswith("s3://")
is_s3_uri(uri) == uri.kind = "str" /\ StartsWith(uri.s, S3Scheme)

\* bool(value) for the values of the model; dict.get of a missing key is None
Truthy(v) ==
    CASE v.kind = "absent" -> FALSE
      [] v.kind = "none" -> FALSE
      [] v.kind = "str" -> Len(v.s) > 0
      [] OTHER -> TRUE

\* dict.get(key, default)
GetOr(d, key, default) == IF d[key].kind = "absent" THEN default ELSE d[key]

\* ---------------------------------------------------------------- mappings
\* A properties mapping: a resource's Properties or one entry of Globals.
Props(pt, code, content, defn, image) ==
    [kind |-> "map", PackageType |-> pt, CodeUri |-> code, ContentUri |-> content,
     DefinitionUri |-> defn, ImageUri |-> image]
EmptyProps == Props(Abs, Abs, Abs, Abs, Abs)
\* a Properties/entry that is absent, None or a string instead of a mapping
NonMapProps(k) == [EmptyProps EXCEPT !.kind = k]

Meta(dockerfile) == [kind |-> "map", Dockerfile |-> dockerfile]
NonMapMeta(k) == [kind |-> k, Dockerfile |-> Abs]

Resource(type, props, meta) ==
    [kind |-> "map", Type |-> type, Properties |-> props, Metadata |-> meta]
NonMapResource(k) ==
    [kind |-> k, Type |-> NoType, Properties |-> NonMapProps("absent"),
     Metadata |-> NonMapMeta("absent")]

Section(k, items) == [kind |-> k, items |-> items]
Template(resources, globals) == [Resources |-> resources, Globals |-> globals]

\* ------------------------------------------------------- the rewrite rules
NoExc == "none"

\* What a step of a pass leaves behind: the (possibly mutated) value and the
\* exception it raised, if any.
Outcome(v, e) == [v |-> v, exc |-> e]
\* The same for a pass: n is the number of resources of the loop over Resources
\* whose body ran to its end before the pass returned or raised.
PassOutcome(v, e, n) == [v |-> v, exc |-> e, n |-> n]

\* _update_to_s3_uri(property_key, resource_property_dict): None.get / str.get
\* raise AttributeError; otherwise the key is overwritten unless its value is a
\* dict or an S3 uri.  The default "." of the get makes a missing key a string
\* that is no S3 uri.
_update_to_s3_uri(property_key, resource_property_dict) ==
    IF resource_property_dict.kind # "map"
    THEN Outcome(resource_property_dict, "AttributeError")
    ELSE LET uri_property == GetOr(resource_property_dict, property_key, Str(<<".">>))
         IN  IF uri_property.kind = "dict" \/ is_s3_uri(uri_property)
             THEN Outcome(resource_property_dict, NoExc)
             ELSE Outcome([resource_property_dict EXCEPT ![property_key] = S3UriValue], NoExc)

\* resource.get("Properties", {}): a resource without the key yields a fresh
\* empty dict that is not part of the template.
ResourceDict(resource) ==
    IF resource.Properties.kind = "absent" THEN EmptyProps ELSE resource.Properties

\* A write to resource.get("Properties", {}) reaches the template only when the
\* resource has the key.
StoreProps(resource, d) ==
    IF resource.Properties.kind = "absent" THEN resource
    ELSE [resource EXCEPT !.Properties = d]

\* "DefinitionUri" in resource_dict: key membership for a dict, a substring test
\* for a str (the model's string Properties does not contain it), TypeError
\* for None.
HasDefinitionUri(d) == d.kind = "map" /\ d.DefinitionUri.kind # "absent"

DefinitionTypes == {AWS_SERVERLESS_API, AWS_SERVERLESS_HTTPAPI, AWS_SERVERLESS_STATEMACHINE}

\* The body of the loop over Resources in _replace_local_codeuri.
CodeUriResource(resource) ==
    IF resource.kind # "map" THEN Outcome(resource, "AttributeError")
    ELSE
    LET resource_type == resource.Type
        resource_dict == ResourceDict(resource)
        Update(key) ==
            LET u == _update_to_s3_uri(key, resource_dict)
            IN  Outcome(StoreProps(resource, u.v), u.exc)
    IN  CASE resource_type = AWS_SERVERLESS_FUNCTION ->
                IF resource_dict.kind # "map" THEN Outcome(resource, "AttributeError")
                ELSE IF GetOr(resource_dict, "PackageType", ZIP) = ZIP
                     THEN Update("CodeUri")
                     ELSE Outcome(resource, NoExc)
          [] resource_type = AWS_SERVERLESS_LAYERVERSION -> Update("ContentUri")
          [] resource_type \in DefinitionTypes ->
                IF resource_dict.kind = "none" THEN Outcome(resource, "TypeError")
                ELSE IF HasDefinitionUri(resource_dict)
                     THEN Update("DefinitionUri")
                     ELSE Outcome(resource, NoExc)
          [] OTHER -> Outcome(resource, NoExc)

\* Variant: the loop returns after the first resource it rewrites.
RECURSIVE CodeUriLoopStopsAfterWrite(_, _)
CodeUriLoopStopsAfterWrite(items, i) ==
    IF i > Len(items) THEN PassOutcome(items, NoExc, i - 1)
    ELSE LET step == CodeUriResource(items[i])
         IN  IF step.exc # NoExc THEN PassOutcome(items, step.exc, i - 1)
             ELSE IF step.v # items[i]
                  THEN PassOutcome([items EXCEPT ![i] = step.v], NoExc, i)
                  ELSE CodeUriLoopStopsAfterWrite(items, i + 1)

\* for _, resource in all_resources.items(): ... ; stops at the first raise,
\* keeping what the earlier iterations wrote.
RECURSIVE CodeUriLoop(_, _)
CodeUriLoop(items, i) ==
    IF i > Len(items) THEN PassOutcome(items, NoExc, i - 1)
    ELSE LET step == CodeUriResource(items[i])
         IN  IF step.exc # NoExc THEN PassOutcome(items, step.exc, i - 1)
             ELSE CodeUriLoop([items EXCEPT ![i] = step.v], i + 1)

\* self.sam_template.get(section, {})
SectionOrEmpty(section) == IF section.kind = "absent" THEN Section("map", <<>>) ELSE section

\* The two list comprehensions of the guard are built in full before all()
\* looks at them: any element that cannot be evaluated raises.
GuardRaises(all_resources, global_settings) ==
    \/ all_resources.kind # "map"
    \/ \E i \in 1..Len(all_resources.items) :
          \/ all_resources.items[i].kind # "map"
          \/ ResourceDict(all_resources.items[i]).kind # "map"
    \/ \E j \in 1..Len(global_settings.items) : global_settings.items[j].props.kind # "map"

\* Variant: the guard looks at the entries of Globals only.
AllZipGlobalsOnly(all_resources, global_settings) ==
    \A j \in 1..Len(global_settings.items) :
        GetOr(global_settings.items[j].props, "PackageType", ZIP) = ZIP

\* Variant: the guard reads PackageType without the ZIP default.
AllZipNoDefault(all_resources, global_settings) ==
    /\ \A i \in 1..Len(all_resources.items) :
          ResourceDict(all_resources.items[i]).PackageType = ZIP
    /\ \A j \in 1..Len(global_settings.items) :
          global_settings.items[j].props.PackageType = ZIP

\* all([Properties.PackageType == ZIP for every resource]
\*     + [PackageType == ZIP for every entry of Globals])
AllZip(all_resources, global_settings) ==
    /\ \A i \in 1..Len(all_resources.items) :
          GetOr(ResourceDict(all_resources.items[i]), "PackageType", ZIP) = ZIP
    /\ \A j \in 1..Len(global_settings.items) :
          GetOr(global_settings.items[j].props, "PackageType", ZIP) = ZIP

\* for resource_type, properties in global_settings.items(): ...
RECURSIVE GlobalsLoop(_, _, _)
GlobalsLoop(all_resources, global_settings, j) ==
    IF j > Len(global_settings.items) THEN Outcome(global_settings, NoExc)
    ELSE IF global_settings.items[j].key # "Function"
         THEN GlobalsLoop(all_resources, global_settings, j + 1)
         ELSE IF GuardRaises(all_resources, global_settings)
              THEN Outcome(global_settings, "AttributeError")
              ELSE IF AllZip(all_resources, global_settings)
                   THEN LET u == _update_to_s3_uri("CodeUri", global_settings.items[j].props)
                        IN  GlobalsLoop(all_resources,
                                        [global_settings EXCEPT !.items[j].props = u.v],
                                        j + 1)
                   ELSE GlobalsLoop(all_resources, global_settings, j + 1)

\* A write into a section reaches the template only when the template has it.
StoreSection(old, new) == IF old.kind = "absent" THEN old ELSE new

\* _replace_local_codeuri: the template after the pass and what it raised.
_replace_local_codeuri(tpl) ==
    LET all_resources == SectionOrEmpty(tpl.Resources)
        global_settings == SectionOrEmpty(tpl.Globals)
    IN  IF global_settings.kind # "map" THEN PassOutcome(tpl, "AttributeError", 0)
        ELSE
        LET g == GlobalsLoop(all_resources, global_settings, 1)
            tplG == [tpl EXCEPT !.Globals = StoreSection(tpl.Globals, g.v)]
        IN  IF g.exc # NoExc THEN PassOutcome(tplG, g.exc, 0)
            ELSE IF all_resources.kind # "map" THEN PassOutcome(tplG, "AttributeError", 0)
            ELSE LET r == CodeUriLoop(all_resources.items, 1)
                 IN  PassOutcome([tplG EXCEPT !.Resources =
                                      StoreSection(tpl.Resources, Section("map", r.v))],
                                 r.exc, r.n)

\* Variant: an ImageUri the template already declares is overwritten.
ImageResourceOverwrites(resource) ==
    IF resource.kind # "map" THEN Outcome(resource, "AttributeError")
    ELSE
    LET resource_type == resource.Type
        properties == ResourceDict(resource)
        metadata == IF resource.Metadata.kind = "absent" THEN Meta(Abs) ELSE resource.Metadata
    IN  IF resource_type = AWS_SERVERLESS_FUNCTION /\ properties.kind # "map"
        THEN Outcome(resource, "AttributeError")
        ELSE IF metadata.kind # "map" THEN Outcome(resource, "AttributeError")
        ELSE IF /\ resource_type = AWS_SERVERLESS_FUNCTION
                /\ properties.PackageType = IMAGE
                /\ Truthy(metadata.Dockerfile)
             THEN Outcome(StoreProps(resource, [properties EXCEPT !.ImageUri = FakeImageUri]), NoExc)
             ELSE Outcome(resource, NoExc)

\* The body of the loop over Resources in _replace_local_image.
ImageResource(resource) ==
    IF resource.kind # "map" THEN Outcome(resource, "AttributeError")
    ELSE
    LET resource_type == resource.Type
        properties == ResourceDict(resource)
        metadata == IF resource.Metadata.kind = "absent" THEN Meta(Abs) ELSE resource.Metadata
    IN  IF resource_type = AWS_SERVERLESS_FUNCTION /\ properties.kind # "map"
        THEN Outcome(resource, "AttributeError")
        ELSE IF metadata.kind # "map" THEN Outcome(resource, "AttributeError")
        ELSE
        LET is_image_function ==
                /\ resource_type = AWS_SERVERLESS_FUNCTION
                /\ properties.PackageType = IMAGE
            is_local_image == Truthy(metadata.Dockerfile)
        IN  IF is_image_function /\ is_local_image /\ properties.ImageUri.kind = "absent"
            THEN Outcome(StoreProps(resource, [properties EXCEPT !.ImageUri = FakeImageUri]), NoExc)
            ELSE Outcome(resource, NoExc)

RECURSIVE ImageLoop(_, _)
ImageLoop(items, i) ==
    IF i > Len(items) THEN PassOutcome(items, NoExc, i - 1)
    ELSE LET step == ImageResource(items[i])
         IN  IF step.exc # NoExc THEN PassOutcome(items, step.exc, i - 1)
             ELSE ImageLoop([items EXCEPT ![i] = step.v], i + 1)

\* _replace_local_image: the template after the pass and what it raised.
_replace_local_image(tpl) ==
    LET resources == SectionOrEmpty(tpl.Resources)
    IN  IF resources.kind # "map" THEN PassOutcome(tpl, "AttributeError", 0)
        ELSE LET r == ImageLoop(resources.items, 1)
             IN  PassOutcome([tpl EXCEPT !.Resources =
                                  StoreSection(tpl.Resources, Section("map", r.v))],
                             r.exc, r.n)

\* ------------------------------------------------------ the input templates
Local == Str(<<".", "/", "s", "r", "c">>)
S3Other == Str(S3Scheme \o <<"b">>)
UpperS3 == Str(<<"S", "3", ":", "/", "/", "b">>)
ShortS3 == Str(<<"s", "3", ":", "/">>)
Dockerfile == Str(<<"D", "o", "c", "k", "e", "r", "f", "i", "l", "e">>)
EmptyStr == Str(<<>>)
SomeImage == Str(<<"i", "m", "g">>)

NoMeta == NonMapMeta("absent")
NoProps == NonMapProps("absent")

FunctionResources ==
    {Resource(AWS_SERVERLESS_FUNCTION, Props(Abs, Abs, Abs, Abs, Abs), NoMeta),
     Resource(AWS_SERVERLESS_FUNCTION, Props(ZIP, UpperS3, Abs, Abs, Abs), NoMeta),
     Resource(AWS_SERVERLESS_FUNCTION, Props(Abs, PyDict, Abs, Abs, Abs), NoMeta),
     Resource(AWS_SERVERLESS_FUNCTION, Props(ZIP, PyNone, Abs, Abs, Abs), Meta(Dockerfile)),
     Resource(AWS_SERVERLESS_FUNCTION, Props(IMAGE, Local, Abs, Abs, Abs), Meta(Dockerfile)),
     Resource(AWS_SERVERLESS_FUNCTION, Props(IMAGE, Abs, Abs, Abs, Abs), Meta(EmptyStr)),
     Resource(AWS_SERVERLESS_FUNCTION, Props(IMAGE, Abs, Abs, Abs, SomeImage), Meta(Dockerfile)),
     Resource(AWS_SERVERLESS_FUNCTION, Props(IMAGE, Abs, Abs, Abs, Abs), NoMeta),
     Resource(AWS_SERVERLESS_FUNCTION, Props(IMAGE, Abs, Abs, Abs, Abs), NonMapMeta("none")),
     Resource(AWS_SERVERLESS_FUNCTION, NoProps, Meta(Dockerfile)),
     Resource(AWS_SERVERLESS_FUNCTION, NonMapProps("none"), NoMeta)}

LayerResources ==
    {Resource(AWS_SERVERLESS_LAYERVERSION, Props(Abs, Abs, Abs, Abs, Abs), NoMeta),
     Resource(AWS_SERVERLESS_LAYERVERSION, Props(Abs, Abs, S3Other, Abs, Abs), NoMeta),
     Resource(AWS_SERVERLESS_LAYERVERSION, NoProps, NoMeta),
     Resource(AWS_SERVERLESS_LAYERVERSION, NonMapProps("str"), NoMeta)}

DefinitionResources ==
    {Resource(AWS_SERVERLESS_API, Props(Abs, Abs, Abs, Local, Abs), NoMeta),
     Resource(AWS_SERVERLESS_API, Props(Abs, Abs, Abs, Abs, Abs), NoMeta),
     Resource(AWS_SERVERLESS_API, NonMapProps("none"), NoMeta),
     Resource(AWS_SERVERLESS_HTTPAPI, Props(Abs, Abs, Abs, ShortS3, Abs), NoMeta),
     Resource(AWS_SERVERLESS_STATEMACHINE, Props(Abs, Abs, Abs, PyDict, Abs), NoMeta)}

OtherResources ==
    {Resource(OtherType, Props(IMAGE, Local, Abs, Abs, Abs), Meta(Dockerfile)),
     Resource(OtherType, NonMapProps("none"), NoMeta),
     NonMapResource("none")}

ResourceChoices ==
    FunctionResources \cup LayerResources \cup DefinitionResources \cup OtherResources

Entry(key, props) == [key |-> key, props |-> props]

GlobalsChoices ==
    {Section("absent", <<>>),
     Section("none", <<>>),
     Section("map", <<Entry("Function", Props(Abs, Abs, Abs, Abs, Abs))>>),
     Section("map", <<Entry("Function", Props(ZIP, Local, Abs, Abs, Abs))>>),
     Section("map", <<Entry("Function", Props(Abs, PyDict, Abs, Abs, Abs))>>),
     Section("map", <<Entry("Function", Props(IMAGE, Local, Abs, Abs, Abs))>>),
     Section("map", <<Entry("Api", Props(IMAGE, Abs, Abs, Abs, Abs)),
                      Entry("Function", Props(ZIP, Local, Abs, Abs, Abs))>>),
     Section("map", <<Entry("Function", Props(Abs, Local, Abs, Abs, Abs)),
                      Entry("Api", NonMapProps("none"))>>)}

ResourcesChoices ==
    {Section("absent", <<>>), Section("none", <<>>), Section("str", <<>>)}
    \cup {Section("map", items) :
            items \in UNION {[1..n -> ResourceChoices] : n \in 0..MaxResources}}

Templates == {Template(r, g) : r \in ResourcesChoices, g \in GlobalsChoices}
EmptyTemplate == Template(Section("absent", <<>>), Section("absent", <<>>))

\* ----------------------------------------------------------- state machine
NoResult == [kind |-> "none", type |-> "none", value |-> <<>>]
NoEngine == [kind |-> "none", message |-> <<>>, causes |-> <<>>, callbacks |-> 0]

ValidatorInit ==
    /\ cache = "miss"
    /\ loads = 0
    /\ preLoads = 0
    /\ okCalls = 0
    /\ failCalls = 0
    /\ returned = {}
    /\ result = NoResult
    /\ engineSaw = NoEngine
    /\ translateCalls = 0

\* The rewrite passes, each called on its own on a validator built around any
\* of the input templates.
RewriteInit ==
    /\ sam_template \in Templates
    /\ pre = sam_template
    /\ lastOp = "init"
    /\ exc = NoExc
    /\ reached = 0
    /\ ValidatorInit

ReplaceLocalCodeuri ==
    LET o == _replace_local_codeuri(sam_template)
    IN  /\ sam_template' = o.v
        /\ pre' = sam_template
        /\ exc' = o.exc
        /\ reached' = o.n
        /\ lastOp' = "codeuri"
        /\ UNCHANGED validatorVars

ReplaceLocalImage ==
    LET o == _replace_local_image(sam_template)
    IN  /\ sam_template' = o.v
        /\ pre' = sam_template
        /\ exc' = o.exc
        /\ reached' = o.n
        /\ lastOp' = "image"
        /\ UNCHANGED validatorVars

RewriteNext ==
    \/ ReplaceLocalCodeuri
    \/ ReplaceLocalImage

SpecRewrite == RewriteInit /\ [][RewriteNext]_vars

\* ------------------------------------------------ the managed policy cache
\* What managed_policy_loader.load() can do when it is invoked: return one of
\* the policy maps, or raise.
PolicyMaps == {"policies_a", "policies_b"}
LoadOutcomes == PolicyMaps \cup {"LoadError"}

\* The cache slot and the call counters, as one value the calls thread through.
Accessor == [cache |-> cache, loads |-> loads, okCalls |-> okCalls,
             failCalls |-> failCalls, returned |-> returned]
CallOutcome(c, raised, value) == [c |-> c, raised |-> raised, value |-> value]

\* Variant: no lru_cache, every call invokes load().
_get_managed_policy_map_uncached(c, load) ==
    IF load = "LoadError"
    THEN CallOutcome([c EXCEPT !.loads = @ + 1, !.failCalls = @ + 1], TRUE, "LoadError")
    ELSE CallOutcome([c EXCEPT !.cache = load, !.loads = @ + 1, !.okCalls = @ + 1,
                               !.returned = @ \cup {load}], FALSE, load)

\* @functools.lru_cache(maxsize=None) around self.managed_policy_loader.load():
\* a hit returns the stored value; a miss invokes load() and stores what it
\* returns; an exception of load() is not stored and propagates.
_get_managed_policy_map(c, load) ==
    IF c.cache # "miss"
    THEN CallOutcome([c EXCEPT !.okCalls = @ + 1, !.returned = @ \cup {c.cache}],
                     FALSE, c.cache)
    ELSE IF load = "LoadError"
         THEN CallOutcome([c EXCEPT !.loads = @ + 1, !.failCalls = @ + 1], TRUE, "LoadError")
         ELSE CallOutcome([c EXCEPT !.cache = load, !.loads = @ + 1, !.okCalls = @ + 1,
                                    !.returned = @ \cup {load}], FALSE, load)

\* Translator.translate calling its get_managed_policy_map argument Len(beh)
\* times; beh[i] is what load() would do if the i-th call invoked it.  An
\* exception of the callback ends the translation.
RECURSIVE Callbacks(_, _, _)
Callbacks(c, beh, i) ==
    IF i > Len(beh) THEN CallOutcome(c, FALSE, "")
    ELSE LET r == _get_managed_policy_map(c, beh[i])
         IN  IF r.raised THEN r ELSE Callbacks(r.c, beh, i + 1)

\* ------------------------------------------------------------- the engine
\* Strings of the engine's failure, as character sequences.
Messages == {<<"M">>, <<>>}
CauseTexts == {<<"A">>, <<"B">>}
\* A cause is an exception object; str(cause) is its text.
Cause(text) == [text |-> text]
StrOf(error) == error.text
CauseLists == UNION {[1..n -> {Cause(t) : t \in CauseTexts}] : n \in 0..MaxCauses}

EngineOutcome(kind, message, causes) ==
    [kind |-> kind, message |-> message, causes |-> causes, callbacks |-> 0]
\* translate returns the translated template, raises InvalidDocumentException
\* (str(e) is message, e.causes the causes), or raises something else.
EngineOutcomes ==
    {EngineOutcome("ok", <<"t">>, <<>>), EngineOutcome("TranslatorError", <<"x">>, <<>>)}
    \cup {EngineOutcome("InvalidDocumentException", m, cs) : m \in Messages, cs \in CauseLists}

Returned(value) == [kind |-> "returned", type |-> "str", value |-> value]
Raised(type, value) == [kind |-> "raised", type |-> type, value |-> value]

\* yaml_dump(template): the translated template as text
yaml_dump(template) == <<"y", "a", "m", "l", ":">> \o template

\* Variant: str(e) + " ".join(str(c) for c in e.causes)
RECURSIVE JoinFrom(_, _)
JoinFrom(causes, i) ==
    IF i > Len(causes) THEN <<>>
    ELSE IF i = Len(causes) THEN StrOf(causes[i])
    ELSE StrOf(causes[i]) \o <<" ">> \o JoinFrom(causes, i + 1)
AggregateJoined(e) == e.message \o JoinFrom(e.causes, 1)

\* functools.reduce(lambda message, error: message + " " + str(error), e.causes, str(e))
RECURSIVE Reduce(_, _, _)
Reduce(message, causes, i) ==
    IF i > Len(causes) THEN message
    ELSE Reduce(message \o <<" ">> \o StrOf(causes[i]), causes, i + 1)
Aggregate(e) == Reduce(e.message, e.causes, 1)

\* Variant: except Exception, every failure of translate is converted.
HandleTranslateCatchesAll(outcome) ==
    IF outcome.kind = "ok" THEN Returned(yaml_dump(outcome.message))
    ELSE Raised("InvalidSamDocumentException", Aggregate(outcome))

\* The try / except InvalidDocumentException around translate: what
\* get_translated_template_if_valid hands to its caller.
HandleTranslate(outcome) ==
    CASE outcome.kind = "ok" -> Returned(yaml_dump(outcome.message))
      [] outcome.kind = "InvalidDocumentException" ->
            Raised("InvalidSamDocumentException", Aggregate(outcome))
      [] OTHER -> Raised(outcome.kind, outcome.message)

\* ------------------------------------------------- the validator's life
\* The spec's scenarios in one template (a function without CodeUri, a layer
\* with a remote ContentUri, an image function built from a Dockerfile), and two
\* templates on which a pass raises.
ValidatorTemplates ==
    {Template(Section("map", <<Resource(AWS_SERVERLESS_FUNCTION, EmptyProps, NoMeta),
                               Resource(AWS_SERVERLESS_LAYERVERSION,
                                        Props(Abs, Abs, S3Other, Abs, Abs), NoMeta),
                               Resource(AWS_SERVERLESS_FUNCTION,
                                        Props(IMAGE, Abs, Abs, Abs, Abs), Meta(Dockerfile))>>),
              Section("map", <<Entry("Function", Props(Abs, Local, Abs, Abs, Abs))>>)),
     Template(Section("none", <<>>), Section("absent", <<>>)),
     Template(Section("map", <<Resource(AWS_SERVERLESS_FUNCTION,
                                        Props(IMAGE, Abs, Abs, Abs, Abs), NonMapMeta("none"))>>),
              Section("absent", <<>>))}

Init ==
    /\ sam_template \in ValidatorTemplates
    /\ pre = sam_template
    /\ lastOp = "init"
    /\ exc = NoExc
    /\ reached = 0
    /\ ValidatorInit

SetAccessor(c) ==
    /\ cache' = c.cache
    /\ loads' = c.loads
    /\ okCalls' = c.okCalls
    /\ failCalls' = c.failCalls
    /\ returned' = c.returned

\* A direct call of validator._get_managed_policy_map().
GetManagedPolicyMap ==
    /\ okCalls + failCalls < MaxCalls
    /\ \E load \in LoadOutcomes :
          LET r == _get_managed_policy_map(Accessor, load)
          IN  /\ SetAccessor(r.c)
              /\ result' = IF r.raised THEN Raised("LoadError", <<>>) ELSE Returned(<<r.value>>)
    /\ preLoads' = loads
    /\ lastOp' = "get_policy_map"
    /\ pre' = sam_template
    /\ UNCHANGED <<sam_template, exc, reached, engineSaw, translateCalls>>

\* get_translated_template_if_valid: the two passes, then translate, which
\* calls the policy-map callback Len(beh) times and ends as eng unless a
\* callback raises.  A pass that raises ends the call before translate.
Validate ==
    /\ LET c1 == _replace_local_codeuri(sam_template)
           last == IF c1.exc # NoExc THEN c1 ELSE _replace_local_image(c1.v)
       IN  /\ sam_template' = last.v
           /\ exc' = last.exc
           /\ reached' = last.n
    /\ IF exc' # NoExc
       THEN /\ result' = Raised(exc', <<>>)
            /\ engineSaw' = NoEngine
            /\ translateCalls' = 0
            /\ SetAccessor(Accessor)
       ELSE \E k \in 0..MaxCallbacks :
            /\ okCalls + failCalls + k <= MaxCalls
            /\ \E beh \in [1..k -> LoadOutcomes] :
               \E eng \in EngineOutcomes :
                LET cb == Callbacks(Accessor, beh, 1)
                    saw == IF cb.raised
                           THEN EngineOutcome("LoadError", <<>>, <<>>)
                           ELSE eng
                IN  /\ engineSaw' = [saw EXCEPT !.callbacks = k]
                    /\ translateCalls' = 1
                    /\ result' = HandleTranslate(saw)
                    /\ SetAccessor(cb.c)
    /\ preLoads' = loads
    /\ lastOp' = "validate"
    /\ pre' = sam_template

Next ==
    \/ GetManagedPolicyMap
    \/ Validate

Spec == Init /\ [][Next]_vars

\* --------------------------------------------- properties of the two passes
\* The template after and before the last pass.
T == sam_template
P == pre
Items(t) == IF t.Resources.kind = "map" THEN t.Resources.items ELSE <<>>
GItems(t) == IF t.Globals.kind = "map" THEN t.Globals.items ELSE <<>>
FunctionEntries(t) == {j \in 1..Len(GItems(t)) : GItems(t)[j].key = "Function"}

\* A value the rewrite must leave alone: a nested mapping, or a string that
\* begins with the five characters s 3 : / /
Exempt(v) ==
    \/ v.kind = "dict"
    \/ /\ v.kind = "str"
       /\ Len(v.s) >= 5
       /\ v.s[1] = "s" /\ v.s[2] = "3" /\ v.s[3] = ":" /\ v.s[4] = "/" /\ v.s[5] = "/"
Expected(v) == IF Exempt(v) THEN v ELSE S3UriValue

DeclaresNonZip(props) ==
    props.kind = "map" /\ props.PackageType.kind # "absent" /\ props.PackageType # ZIP
IsFunction(r) == r.kind = "map" /\ r.Type = AWS_SERVERLESS_FUNCTION
SomeFunctionNonZip(t) ==
    \/ \E i \in 1..Len(Items(t)) : IsFunction(Items(t)[i]) /\ DeclaresNonZip(Items(t)[i].Properties)
    \/ \E j \in FunctionEntries(t) : DeclaresNonZip(GItems(t)[j].props)
GlobalFunctionCodeUri(t) == {GItems(t)[j].props.CodeUri : j \in FunctionEntries(t)}

\* C3: when a function resource of Resources, or the Function entry of Globals,
\* declares a PackageType other than Zip, _replace_local_codeuri leaves the
\* CodeUri of Globals.Function as it was, neither rewritten nor added.
C3_GlobalGuard ==
    (lastOp = "codeuri" /\ SomeFunctionNonZip(P))
        => GlobalFunctionCodeUri(T) = GlobalFunctionCodeUri(P)

\* The pass completed, rewrote a resource, and kept the local CodeUri of
\* Globals.Function because a function resource is image-packaged.
C3_Witness ==
    /\ lastOp = "codeuri" /\ exc = NoExc /\ T # P
    /\ \E i \in 1..Len(Items(P)) :
          IsFunction(Items(P)[i]) /\ DeclaresNonZip(Items(P)[i].Properties)
    /\ GlobalFunctionCodeUri(T) = {Local}

\* The recognized location field of a resource, "" when its type has none.
LocationKey(r) ==
    CASE r.Type = AWS_SERVERLESS_FUNCTION -> "CodeUri"
      [] r.Type = AWS_SERVERLESS_LAYERVERSION -> "ContentUri"
      [] r.Type \in DefinitionTypes -> "DefinitionUri"
      [] OTHER -> ""
HasLocation(r) == r.kind = "map" /\ r.Properties.kind = "map" /\ LocationKey(r) # ""
\* The resources whose location field the pass hands to the rewrite.
PassedToRewrite(r) ==
    /\ HasLocation(r)
    /\ r.Type = AWS_SERVERLESS_FUNCTION =>
          (r.Properties.PackageType.kind = "absent" \/ r.Properties.PackageType = ZIP)
    /\ r.Type \in DefinitionTypes => r.Properties.DefinitionUri.kind # "absent"

C5_Idempotent ==
    [][(lastOp = "codeuri" /\ lastOp' = "codeuri") => sam_template' = sam_template]_vars

\* The last pass changed nothing although the template holds placeholders an
\* earlier pass wrote (no input template contains the placeholder).
C5_Witness ==
    /\ lastOp = "codeuri" /\ pre = sam_template /\ reached = 2
    /\ \E i \in 1..Len(Items(T)) :
          HasLocation(Items(T)[i]) /\ Items(T)[i].Properties.CodeUri = S3UriValue
    /\ GlobalFunctionCodeUri(T) = {S3UriValue}

\* The location field of resource r: absent when r has no Properties mapping.
Location(r, key) == IF r.Properties.kind = "map" THEN r.Properties[key] ELSE Abs

\* C6 (as claimed): after a _replace_local_codeuri that returns, the CodeUri of
\* every function with PackageType Zip or unspecified and the ContentUri of
\* every layer version is present, holding its original mapping / "s3://"
\* value or the placeholder; a DefinitionUri is rewritten the same way when it
\* was present and is not added when it was absent.
C6_AllLocationsRemote ==
    (lastOp = "codeuri" /\ exc = NoExc) =>
        \A i \in 1..Len(Items(P)) :
            LET r == Items(P)[i]
                t == Items(T)[i]
            IN  /\ (IsFunction(r) /\ ~DeclaresNonZip(r.Properties))
                      => Location(t, "CodeUri") = Expected(Location(r, "CodeUri"))
                /\ (r.kind = "map" /\ r.Type = AWS_SERVERLESS_LAYERVERSION)
                      => Location(t, "ContentUri") = Expected(Location(r, "ContentUri"))
                /\ (r.kind = "map" /\ r.Type \in DefinitionTypes)
                      => Location(t, "DefinitionUri") =
                            IF Location(r, "DefinitionUri").kind = "absent" THEN Abs
                            ELSE Expected(Location(r, "DefinitionUri"))

\* The four conditions of _replace_local_image, the third read as "Metadata has
\* the Dockerfile key".
FourConditionsKey(r) ==
    /\ IsFunction(r)
    /\ r.Properties.kind = "map" /\ r.Properties.PackageType = IMAGE
    /\ r.Metadata.kind = "map" /\ r.Metadata.Dockerfile.kind # "absent"
    /\ r.Properties.ImageUri.kind = "absent"
\* The same with the third read as "Metadata's Dockerfile value is true in a
\* condition": present, not None, not the empty string.
FourConditionsTruthy(r) ==
    /\ IsFunction(r)
    /\ r.Properties.kind = "map" /\ r.Properties.PackageType = IMAGE
    /\ r.Metadata.kind = "map"
    /\ r.Metadata.Dockerfile.kind \notin {"absent", "none"}
    /\ r.Metadata.Dockerfile # EmptyStr
    /\ r.Properties.ImageUri.kind = "absent"
WithFakeImage(r) ==
    [r EXCEPT !.Properties.ImageUri =
        Str(<<"1", "1", "1", "1", "1", "1", "1", "1", "1", "1", "1", "1", ".", "d", "k", "r",
              ".", "e", "c", "r", ".", "r", "e", "g", "i", "o", "n", ".", "a", "m", "a", "z",
              "o", "n", "a", "w", "s", ".", "c", "o", "m", "/", "r", "e", "p", "o", "s", "i",
              "t", "o", "r", "y">>)]

\* C7 (as claimed): _replace_local_image sets ImageUri to the fake image uri
\* exactly for the resources that are functions, have PackageType Image, whose
\* Metadata contains the Dockerfile key, and whose Properties has no ImageUri;
\* every other resource is unchanged.
C7_FourConditions_Original ==
    (lastOp = "image" /\ exc = NoExc) =>
        \A i \in 1..Len(Items(P)) :
            Items(T)[i] = IF FourConditionsKey(Items(P)[i])
                          THEN WithFakeImage(Items(P)[i]) ELSE Items(P)[i]

\* What _replace_local_image can read of a resource without raising: the
\* resource and its Metadata are mappings (or Metadata is absent), and so is
\* the Properties of a function.
ImageReadable(r) ==
    /\ r.kind = "map"
    /\ r.Metadata.kind \in {"map", "absent"}
    /\ r.Type = AWS_SERVERLESS_FUNCTION => r.Properties.kind \in {"map", "absent"}

\* C7 (amended): _replace_local_image walks Resources in order and stops, with
\* an error, at the first resource it cannot read; for every resource before
\* that one it sets ImageUri to the fake image uri exactly when the resource
\* is a function, has PackageType Image, its Metadata's Dockerfile value is
\* truthy (present and neither None nor empty), and its Properties has no
\* ImageUri; every other resource, and Globals, is unchanged.
C7_FourConditions ==
    lastOp = "image" =>
        /\ T.Globals = P.Globals
        /\ T.Resources.kind = P.Resources.kind
        /\ Len(Items(T)) = Len(Items(P))
        /\ \A i \in 1..Len(Items(P)) : i <= reached => ImageReadable(Items(P)[i])
        /\ reached < Len(Items(P)) => ~ImageReadable(Items(P)[reached + 1])
        /\ (exc = NoExc) = (reached = Len(Items(P)) /\ P.Resources.kind \in {"map", "absent"})
        /\ \A i \in 1..Len(Items(P)) :
              Items(T)[i] = IF i <= reached /\ FourConditionsTruthy(Items(P)[i])
                            THEN WithFakeImage(Items(P)[i]) ELSE Items(P)[i]

\* The pass visited two resources: it gave one function the fake image uri and
\* left alone a function whose Dockerfile key holds an empty value.
C7_Witness ==
    /\ lastOp = "image" /\ exc = NoExc /\ reached = 2
    /\ \E i, k \in 1..Len(Items(P)) :
          /\ FourConditionsTruthy(Items(P)[i])
          /\ Items(T)[i].Properties.ImageUri = FakeImageUri
          /\ FourConditionsKey(Items(P)[k]) /\ ~FourConditionsTruthy(Items(P)[k])
          /\ Items(T)[k] = Items(P)[k]

\* C8 (as claimed): neither pass ever raises.
C8_NeverRaises == lastOp \in {"codeuri", "image"} => exc = NoExc

EveryFunctionZip(t) ==
    /\ \A i \in 1..Len(Items(t)) :
          IsFunction(Items(t)[i]) => ~DeclaresNonZip(Items(t)[i].Properties)
    /\ \A j \in 1..Len(GItems(t)) : ~DeclaresNonZip(GItems(t)[j].props)
GlobalCodeUriRewritten ==
    \A j \in FunctionEntries(P) :
        /\ GItems(T)[j].props.kind = "map"
        /\ GItems(T)[j].props.CodeUri = Expected(GItems(P)[j].props.CodeUri)

\* C9 (as claimed): when every function resource and every entry of Globals
\* has PackageType Zip or unspecified, a _replace_local_codeuri that returns
\* has rewritten Globals.Function.CodeUri (unless it was a mapping or an
\* "s3://" string), whatever resources of other types declare.
C9_GlobalRewrite_Original ==
    (lastOp = "codeuri" /\ exc = NoExc /\ EveryFunctionZip(P)) => GlobalCodeUriRewritten

\* Every resource of Resources, of whatever type, and every entry of Globals
\* is a mapping whose PackageType (in a Properties that is a mapping or
\* absent, for a resource) is Zip or unspecified.
EveryResourceZip(t) ==
    /\ t.Resources.kind \in {"map", "absent"}
    /\ \A i \in 1..Len(Items(t)) :
          /\ Items(t)[i].kind = "map"
          /\ Items(t)[i].Properties.kind \in {"map", "absent"}
          /\ ~DeclaresNonZip(Items(t)[i].Properties)
    /\ \A j \in 1..Len(GItems(t)) :
          GItems(t)[j].props.kind = "map" /\ ~DeclaresNonZip(GItems(t)[j].props)

\* C9 (amended): when every resource of Resources, of any type, and every
\* entry of Globals is a mapping with PackageType Zip or unspecified,
\* _replace_local_codeuri rewrites Globals.Function.CodeUri to the placeholder
\* unless it was a mapping or an "s3://" string.
C9_GlobalRewrite ==
    (lastOp = "codeuri" /\ EveryResourceZip(P)) => GlobalCodeUriRewritten

\* Globals.Function had a local CodeUri (or none) and got the placeholder,
\* next to a layer version and a function with PackageType unspecified.
C9_Witness ==
    /\ lastOp = "codeuri" /\ EveryResourceZip(P) /\ Len(Items(P)) = 2
    /\ \E i \in 1..Len(Items(P)) : Items(P)[i].Type = AWS_SERVERLESS_LAYERVERSION
    /\ \E i \in 1..Len(Items(P)) :
          IsFunction(Items(P)[i]) /\ Items(P)[i].Properties.PackageType.kind = "absent"
    /\ GlobalFunctionCodeUri(P) = {Abs}
    /\ GlobalFunctionCodeUri(T) = {S3UriValue}

\* -------------------------------------------- properties of the validator
\* C1 (as claimed): after any N >= 1 calls of _get_managed_policy_map, direct
\* or through the callback, load() has been invoked exactly once and every
\* call returned the one stored value.
C1_FetchOnce_Original ==
    okCalls + failCalls >= 1 => (loads = 1 /\ returned \subseteq {cache})

\* C1 (amended): load() is invoked once by every call made before a load()
\* has returned, and never after: the calls whose load() raised each invoked
\* it once, stored nothing and failed; the first call whose load() returned
\* stored its value; every later call returns that value without invoking
\* load() again.
C1_FetchOnce ==
    /\ [](/\ loads = failCalls + (IF okCalls > 0 THEN 1 ELSE 0)
          /\ (okCalls > 0) = (cache \in PolicyMaps)
          /\ returned = (IF okCalls > 0 THEN {cache} ELSE {}))
    /\ [][cache # "miss" =>
            (cache' = cache /\ loads' = loads /\ failCalls' = failCalls)]_vars

\* load() raised on the first call and returned on the second; the third call
\* was served from the cache.
C1_Witness ==
    /\ failCalls = 1 /\ okCalls = 2 /\ loads = 2
    /\ returned = {"policies_b"}
    /\ lastOp = "validate" /\ engineSaw.callbacks = 1

\* The causes' strings, each after one space, in the order of the list.
RECURSIVE SpacedCauses(_)
SpacedCauses(causes) ==
    IF causes = <<>> THEN <<>>
    ELSE <<" ">> \o Head(causes).text \o SpacedCauses(Tail(causes))

\* C2: when translate fails with InvalidDocumentException of message M and
\* causes c1..cn, the validation fails with one InvalidSamDocumentException
\* whose message is M followed by " " and str(ci) for each cause, in order.
C2_ErrorAggregation ==
    (lastOp = "validate" /\ engineSaw.kind = "InvalidDocumentException") =>
        result = [kind |-> "raised", type |-> "InvalidSamDocumentException",
                  value |-> engineSaw.message \o SpacedCauses(engineSaw.causes)]

\* The engine failed with message "M" and causes A, B: the caller sees "M A B".
C2_Witness ==
    /\ lastOp = "validate"
    /\ engineSaw.kind = "InvalidDocumentException"
    /\ engineSaw.message = <<"M">>
    /\ engineSaw.causes = <<[text |-> <<"A">>], [text |-> <<"B">>]>>
    /\ result.value = <<"M", " ", "A", " ", "B">>

\* C10: a validation invokes translate at most once and load() at most once;
\* only InvalidDocumentException becomes InvalidSamDocumentException; any
\* other failure of translate, a failure of load() reached through the
\* callback included, reaches the caller as it was raised; the caller never
\* sees InvalidDocumentException itself.
C10_OnlyDocumentErrorsTranslated ==
    lastOp = "validate" =>
        /\ translateCalls <= 1
        /\ loads - preLoads <= 1
        /\ result.type # "InvalidDocumentException"
        /\ translateCalls = 1 =>
              /\ (engineSaw.kind = "InvalidDocumentException")
                    = (result.kind = "raised" /\ result.type = "InvalidSamDocumentException")
              /\ engineSaw.kind \in {"TranslatorError", "LoadError"} =>
                    result = [kind |-> "raised", type |-> engineSaw.kind,
                              value |-> engineSaw.message]
              /\ engineSaw.kind = "ok" => result.kind = "returned"
        /\ translateCalls = 0 =>
              (result.kind = "raised" /\ result.type \in {"AttributeError", "TypeError"})

\* load() raised inside the callback and the caller got that LoadError, after
\* one invocation of load().
C10_Witness ==
    /\ lastOp = "validate" /\ translateCalls = 1
    /\ engineSaw.kind = "LoadError" /\ engineSaw.callbacks >= 1
    /\ result = [kind |-> "raised", type |-> "LoadError", value |-> <<>>]
    /\ loads = preLoads + 1

\* ------------------------------------------------ the two passes as a pair
\* self._replace_local_codeuri(); self._replace_local_image() as
\* get_translated_template_if_valid runs them: an exception of the first call
\* ends the sequence, the second call is not made.
CodeuriThenImage(tpl) ==
    LET c == _replace_local_codeuri(tpl)
    IN  IF c.exc # NoExc THEN c ELSE _replace_local_image(c.v)

\* The same two calls in the other order.
ImageThenCodeuri(tpl) ==
    LET i == _replace_local_image(tpl)
    IN  IF i.exc # NoExc THEN i ELSE _replace_local_codeuri(i.v)

NormalizeCodeuriImage ==
    LET o == CodeuriThenImage(sam_template)
    IN  /\ sam_template' = o.v
        /\ pre' = sam_template
        /\ exc' = o.exc
        /\ reached' = o.n
        /\ lastOp' = "codeuri_image"
        /\ UNCHANGED validatorVars

NormalizeImageCodeuri ==
    LET o == ImageThenCodeuri(sam_template)
    IN  /\ sam_template' = o.v
        /\ pre' = sam_template
        /\ exc' = o.exc
        /\ reached' = o.n
        /\ lastOp' = "image_codeuri"
        /\ UNCHANGED validatorVars

PairNext ==
    \/ NormalizeCodeuriImage
    \/ NormalizeImageCodeuri

SpecPair == RewriteInit /\ [][PairNext]_vars

\* C11 (as claimed): on every template, _replace_local_codeuri followed by
\* _replace_local_image leaves the template that _replace_local_image followed
\* by _replace_local_codeuri leaves, and a pair run right after the same pair
\* changes nothing.
C11_PassesCommute ==
    /\ lastOp = "codeuri_image" => sam_template = ImageThenCodeuri(pre).v
    /\ lastOp = "image_codeuri" => sam_template = CodeuriThenImage(pre).v
    /\ (lastOp \in {"codeuri_image", "image_codeuri"} /\ pre # sam_template)
          => /\ CodeuriThenImage(sam_template).v = sam_template
             /\ ImageThenCodeuri(sam_template).v = sam_template

\* The part of C11 that the exceptions do not touch: when neither pass raises
\* on the template, the two orders leave the same template.
C11_CommuteWhenBothReturn ==
    (lastOp \in {"codeuri_image", "image_codeuri"} /\ exc = NoExc)
        => /\ sam_template = ImageThenCodeuri(pre).v
           /\ sam_template = CodeuriThenImage(pre).v

\* C11, second half alone: a pair run on the result of a pair changes nothing.
C11_PairIdempotent ==
    [][(lastOp \in {"codeuri_image", "image_codeuri"} /\ lastOp' = lastOp)
          => sam_template' = sam_template]_vars

====
